---- MODULE Spec2Model ----
(***************************************************************************)
(* Emergency dispatch and assignment engine of insant-ambulance.           *)
(*                                                                         *)
(* The services run every mutating operation as BEGIN .. COMMIT on a       *)
(* pooled PostgreSQL connection with the default isolation level (READ     *)
(* COMMITTED) and plain SELECTs (no FOR UPDATE).  Each SELECT therefore    *)
(* reads the rows committed at the moment it runs; the UPDATE / INSERT     *)
(* statements of a transaction are blind writes keyed by primary key and   *)
(* become visible to the other connections together, at COMMIT.  One       *)
(* action of the model is one SELECT (with the checks the code makes on    *)
(* its result) or the write-and-commit tail of a transaction.              *)
(***************************************************************************)
EXTENDS Integers, Sequences, FiniteSets, TLC

\* ---------------------------------------------------------------- bounds
MaxReq == 2          \* emergency requests that can be created
MaxAsg == 2          \* assignment rows that can be inserted
NumHospitals == 2    \* registered hospitals
NumDrivers == 2      \* registered drivers
MaxApproved == 1     \* drivers that hospitals approve
NumTx == 2           \* pooled connections running a transaction at once
NumRequesters == 2   \* registered users who create emergency requests

Hospitals == 1..NumHospitals
Drivers == 1..NumDrivers
Tx == 1..NumTx
ReqIds == 1..MaxReq
Requesters == 1..NumRequesters
AsgIds == 1..MaxAsg

\* ---------------------------------------------------------------- schema
\* CREATE TYPE emergency_status
emergency_status ==
    {"pending", "accepted", "assigned", "in_progress", "completed", "cancelled"}

\* columns of emergency_assignments created by the migration
MigrationAssignmentColumns ==
    {"id", "emergency_id", "driver_id", "assigned_at", "accepted_at",
     "pickup_at", "completed_at", "status", "notes"}

\* The two stores the sources describe: the one 001_initial_schema.sql
\* creates, and the one the SQL text of DriverService is written against
\* (assignment statuses en_route / arrived, columns en_route_at, arrived_at,
\* updated_at).
Schemas == {"migration_001", "service"}

AssignmentStatusDomain(sch) ==
    IF sch = "migration_001" THEN emergency_status
    ELSE emergency_status \cup {"en_route", "arrived"}

AssignmentColumns(sch) ==
    IF sch = "migration_001" THEN MigrationAssignmentColumns
    ELSE MigrationAssignmentColumns \cup {"en_route_at", "arrived_at", "updated_at"}

\* A statement is rejected by the store (an error that is not an ApiError,
\* hence ROLLBACK and HTTP 500) when it names a column the table lacks or a
\* value outside the enum of the column.
StoreAccepts(sch, cols, vals) ==
    /\ cols \subseteq AssignmentColumns(sch)
    /\ vals \subseteq AssignmentStatusDomain(sch)

\* ---------------------------------------------------------------- state
VARIABLES
    schema,       \* which of the two stores is deployed
    hospitals,    \* hospitals rows
    reply,        \* what the most recent read-only query was asked and returned
    requests,     \* emergency_requests rows, id = index
    drivers,      \* drivers rows
    assignments,  \* emergency_assignments rows, id = index
    tx,           \* the transaction each pooled connection is running
    acceptOk,     \* per request: acceptEmergencyRequest calls that returned success
    assignOk,     \* per request: assignDriverToEmergency calls that returned success
    last          \* response of the call that returned most recently

vars == <<schema, hospitals, reply, requests, drivers, assignments, tx, acceptOk, assignOk, last>>

Idle == [op |-> "idle", pc |-> "idle", req |-> 0, hosp |-> 0, drv |-> 0,
         asg |-> 0, arg |-> "none"]

\* no call has returned yet
NoCall == [op |-> "none", at |-> "none", code |-> 0]

\* a success; its effect is in the rows
Ok == [op |-> "ok", at |-> "commit", code |-> 200]

\* What is kept of a response: for an error, the operation that raised it,
\* the statement of the operation it was raised at (the errors of one
\* operation differ in their message) and its HTTP status (400 / 404 for an
\* ApiError, 500 for any other error).
Response(op, at, code) ==
    IF code = 200 THEN Ok ELSE [op |-> op, at |-> at, code |-> code]

\* non-terminal assignment statuses, as the services spell them
ActiveStatuses == {"assigned", "en_route", "arrived"}

\* no read-only query has returned yet
NoReply == [op |-> "none"]

\* The hospitals rows of the dispatch model: active, located one degree
\* apart on the meridian of the pickup points, each with room for one
\* emergency.  No operation of HospitalService or DriverService reads these
\* columns.
RegisteredHospitals ==
    [h \in Hospitals |->
        [is_active |-> TRUE, located |-> TRUE, latitude |-> h,
         emergency_capacity |-> 1]]

Init ==
    /\ schema \in Schemas
    /\ hospitals = RegisteredHospitals
    /\ reply = NoReply
    /\ requests = << >>
    /\ drivers = [d \in Drivers |-> [is_available |-> TRUE, is_approved |-> FALSE]]
    /\ assignments = << >>
    /\ tx = [t \in Tx |-> Idle]
    /\ acceptOk = [r \in ReqIds |-> 0]
    /\ assignOk = [r \in ReqIds |-> 0]
    /\ last = NoCall

\* a new call takes the first free pooled connection
FreeTx(t) ==
    /\ tx[t].op = "idle"
    /\ \A u \in Tx : u < t => tx[u].op # "idle"

\* the call on connection t returns with HTTP status code (200 for success,
\* 400 / 404 for an ApiError, 500 for any other error); COMMIT or ROLLBACK
\* has been issued and the connection is released
Return(t, code) ==
    /\ tx' = [tx EXCEPT ![t] = Idle]
    /\ last' = Response(tx[t].op, tx[t].pc, code)

\* ------------------------------------------------ EmergencyService
\* how the hospital-candidate lookup that follows the COMMIT can end
LookupOutcomes == {"found", "error"}

\* the lookup without its try / catch: its error becomes the call's error
LookupPropagated(outcome) ==
    IF outcome = "error" THEN 500 ELSE 200

\* try { findNearbyHospitals(..) } catch { logger.error(..) }: the error is
\* logged and the call goes on to return success
LookupSwallowed(outcome) == 200

\* INSERT INTO emergency_requests (user_id, .., status) VALUES ($1, .., 'pending')
\* hospital_id is not named and stays NULL (0); created_at takes its default,
\* the time of the insert, modelled by the position of the row.
InsertRequest(reqs, u) ==
    Append(reqs, [status |-> "pending", hospital_id |-> 0, user_id |-> u,
                  created_at |-> Len(reqs) + 1])

\* INSERT and COMMIT on a connection of its own, then the lookup, whose
\* result is only logged
createEmergencyRequest(u) ==
    /\ Len(requests) < MaxReq
    /\ requests' = InsertRequest(requests, u)
    /\ \E outcome \in LookupOutcomes :
         last' = Response("create", "lookup", LookupSwallowed(outcome))
    /\ UNCHANGED <<schema, hospitals, reply, drivers, assignments, tx, acceptOk, assignOk>>

\* a call returns in its first step: its connection is free again at once
Answer(op, code) ==
    /\ last' = Response(op, "start", code)
    /\ UNCHANGED tx

Call(op, r, h, d, a, x) ==
    [op |-> op, pc |-> "write", req |-> r, hosp |-> h, drv |-> d, asg |-> a, arg |-> x]

\* ------------------------------------------------ EmergencyService.findNearbyHospitals
MaxLatitude == 2     \* latitudes of hospitals and pickup points, in degrees
MaxDistance == 2     \* largest maxDistance a caller passes, in degrees of arc
MaxLimit == 2        \* largest limit a caller passes

Latitudes == 0..MaxLatitude

\* a count of the accepted requests alone
CurrentRequestsAccepted(reqs, h) ==
    Cardinality({r \in 1..Len(reqs) :
        reqs[r].hospital_id = h /\ reqs[r].status = "accepted"})

\* COUNT(er.id) FILTER (WHERE er.status = 'accepted' OR er.status = 'assigned')
\* over the requests joined ON h.id = er.hospital_id
CurrentRequests(reqs, h) ==
    Cardinality({r \in 1..Len(reqs) :
        reqs[r].hospital_id = h /\ reqs[r].status \in {"accepted", "assigned"}})

\* Haversine distance R * c.  For two points on one meridian c is the
\* difference of the latitudes in radians, so in units of one degree of arc
\* the distance is that difference.
calculateDistance(lat1, lat2) ==
    IF lat2 >= lat1 THEN lat2 - lat1 ELSE lat1 - lat2

\* WHERE h.is_active = true AND h.latitude IS NOT NULL AND h.longitude IS NOT NULL
\* The statement has no ORDER BY: the rows come in an order of the store's
\* choosing, order.
SelectHospitals(hosp, order) ==
    SelectSeq(order, LAMBDA h : hosp[h].is_active /\ hosp[h].located)

\* .map(hospital => ({ .., distance, maxCapacity, currentRequests }))
NearbyRow(hosp, reqs, latitude, h) ==
    [id |-> h,
     distance |-> calculateDistance(latitude, hosp[h].latitude),
     maxCapacity |-> hosp[h].emergency_capacity,
     currentRequests |-> CurrentRequests(reqs, h)]

\* Array.prototype.sort with (a, b) => a.distance - b.distance, which is
\* stable: rows at equal distance keep their order
RECURSIVE InsertByDistance(_, _)
InsertByDistance(sorted, row) ==
    IF sorted = << >> THEN <<row>>
    ELSE IF sorted[Len(sorted)].distance <= row.distance THEN Append(sorted, row)
    ELSE Append(InsertByDistance(SubSeq(sorted, 1, Len(sorted) - 1), row),
                sorted[Len(sorted)])

RECURSIVE SortByDistance(_)
SortByDistance(rows) ==
    IF rows = << >> THEN << >>
    ELSE InsertByDistance(SortByDistance(SubSeq(rows, 1, Len(rows) - 1)),
                          rows[Len(rows)])

\* Array.prototype.slice(0, end): a negative end counts from the end of the
\* array, an end past the array is the length
Slice(rows, end) ==
    LET stop == IF end < 0 THEN (IF Len(rows) + end > 0 THEN Len(rows) + end ELSE 0)
                ELSE IF end > Len(rows) THEN Len(rows) ELSE end
    IN SubSeq(rows, 1, stop)

\* the rows mapped, filtered by distance <= maxDistance, sorted and sliced
NearbyHospitals(hosp, reqs, order, latitude, maxDistance, limit) ==
    LET selected == SelectHospitals(hosp, order)
        mapped == [i \in 1..Len(selected) |-> NearbyRow(hosp, reqs, latitude, selected[i])]
        near == SelectSeq(mapped, LAMBDA row : row.distance <= maxDistance)
    IN Slice(SortByDistance(near), limit)

\* the orders in which the store can return the hospitals
RowOrders ==
    {order \in [1..NumHospitals -> Hospitals] :
        \A i, j \in 1..NumHospitals : i # j => order[i] # order[j]}

\* a read-only call: only its result is kept
findNearbyHospitals(order, latitude, maxDistance, limit) ==
    /\ reply' = [op |-> "nearby", latitude |-> latitude, maxDistance |-> maxDistance,
                 limit |-> limit,
                 rows |-> NearbyHospitals(hospitals, requests, order, latitude,
                                          maxDistance, limit)]
    /\ UNCHANGED <<schema, hospitals, requests, drivers, assignments, tx,
                   acceptOk, assignOk, last>>

\* the hospitals rows a registration can leave: active or not, with or
\* without coordinates
HospitalRows ==
    [is_active : BOOLEAN, located : BOOLEAN, latitude : Latitudes,
     emergency_capacity : {1}]

\* GET /user/emergency/:requestId/nearby-hospitals passes
\* parseInt(req.query.limit) || 10 and parseInt(req.query.maxDistance) || 50:
\* any integer but 0, a negative one included
Limits == (-1..MaxLimit) \ {0}

Distances == (-1..MaxDistance) \ {0}

\* ------------------------------------------------ EmergencyService.getUserEmergencyHistory
MaxPage == 3         \* largest page a caller asks for
MaxPageSize == 3     \* largest limit a caller asks for

\* parseInt(req.query.page) || 1 and parseInt(req.query.limit) || 10: any
\* integer but 0, a negative one included
Pages == (-1..MaxPage) \ {0}

PageSizes == (-1..MaxPageSize) \ {0}

\* WHERE er.user_id = $1: the ids of the requester's rows
OwnRequests(reqs, u) ==
    SelectSeq([i \in 1..Len(reqs) |-> i], LAMBDA r : reqs[r].user_id = u)

\* ORDER BY er.created_at DESC
RECURSIVE InsertByCreatedDesc(_, _, _)
InsertByCreatedDesc(reqs, sorted, r) ==
    IF sorted = << >> THEN <<r>>
    ELSE IF reqs[sorted[Len(sorted)]].created_at >= reqs[r].created_at
         THEN Append(sorted, r)
    ELSE Append(InsertByCreatedDesc(reqs, SubSeq(sorted, 1, Len(sorted) - 1), r),
                sorted[Len(sorted)])

RECURSIVE OrderByCreatedDesc(_, _)
OrderByCreatedDesc(reqs, ids) ==
    IF ids = << >> THEN << >>
    ELSE InsertByCreatedDesc(reqs, OrderByCreatedDesc(reqs, SubSeq(ids, 1, Len(ids) - 1)),
                             ids[Len(ids)])

\* LIMIT $2 OFFSET $3, for a limit and an offset the store accepts
LimitOffset(ids, limit, offset) ==
    SubSeq(ids, offset + 1,
           IF offset + limit > Len(ids) THEN Len(ids) ELSE offset + limit)

\* the store raises an error on a negative LIMIT and on a negative OFFSET,
\* which the catch turns into ApiError(500)
HistoryCode(page, limit) ==
    IF limit < 0 \/ (page - 1) * limit < 0 THEN 500 ELSE 200

\* historyResult.rows.map(..)
HistoryRow(reqs, r) ==
    [requestId |-> r, status |-> reqs[r].status, createdAt |-> reqs[r].created_at]

HistoryRows(reqs, u, page, limit) ==
    LET ids == LimitOffset(OrderByCreatedDesc(reqs, OwnRequests(reqs, u)),
                           limit, (page - 1) * limit)
    IN [i \in 1..Len(ids) |-> HistoryRow(reqs, ids[i])]

\* a read-only call: only its answer is kept
getUserEmergencyHistory(u, page, limit) ==
    /\ reply' = IF HistoryCode(page, limit) # 200
                THEN [op |-> "history", user_id |-> u, page |-> page, limit |-> limit,
                      code |-> 500, total |-> 0, requests |-> << >>]
                ELSE [op |-> "history", user_id |-> u, page |-> page, limit |-> limit,
                      code |-> 200, total |-> Len(OwnRequests(requests, u)),
                      requests |-> HistoryRows(requests, u, page, limit)]
    /\ UNCHANGED <<schema, hospitals, requests, drivers, assignments, tx,
                   acceptOk, assignOk, last>>

\* ------------------------------------------------ authorize(...roles)
MaxRoles == 2        \* largest number of roles a route lists

UserRole == {"user", "hospital", "driver", "admin"}

\* req.user: the role of the user that authenticate attached, or none
RequestUsers == UserRole \cup {"none"}

\* the role lists authorize is built with
RoleLists == UNION {[1..n -> UserRole] : n \in 0..MaxRoles}

\* roles.includes(role)
Includes(roles, role) == \E i \in 1..Len(roles) : roles[i] = role

\* a middleware that tests only that a user is attached
AuthorizeAnyRole(user, roles) ==
    IF user = "none" THEN 401 ELSE 0

\* the status of the ApiError handed to next, 0 for next()
Authorize(user, roles) ==
    IF user = "none" THEN 401
    ELSE IF ~Includes(roles, user) THEN 403
    ELSE 0

\* a request through authorize(...roles) and the handler behind it: next()
\* runs the handler, next(error) goes past it to the error handler
authorize(user, roles) ==
    /\ reply' = [op |-> "authorize", user |-> user, roles |-> roles,
                 error |-> Authorize(user, roles),
                 handler |-> (Authorize(user, roles) = 0)]
    /\ UNCHANGED <<schema, hospitals, requests, drivers, assignments, tx,
                   acceptOk, assignOk, last>>

\* ------------------------------------------------ HospitalService.acceptEmergencyRequest
\* the lookup without the test of the status
AcceptCheckExistsOnly(reqs, r) ==
    IF r > Len(reqs) THEN 404 ELSE 200

\* SELECT status FROM emergency_requests WHERE id = $1, and the two checks on it
AcceptCheck(reqs, r) ==
    IF r > Len(reqs) THEN 404
    ELSE IF reqs[r].status # "pending" THEN 400
    ELSE 200

\* the UPDATE without its hospital_id column
AcceptUpdateStatusOnly(reqs, r, h) ==
    [reqs EXCEPT ![r].status = "accepted"]

\* UPDATE emergency_requests SET status = 'accepted', hospital_id = $1 WHERE id = $2
AcceptUpdate(reqs, r, h) ==
    [reqs EXCEPT ![r].status = "accepted", ![r].hospital_id = h]

\* an acceptance that refuses a hospital at or over its emergency_capacity
AcceptStartCapped(t, r, h) ==
    /\ FreeTx(t)
    /\ LET rec == Call("accept", r, h, 0, 0, "none")
           code == IF AcceptCheck(requests, r) # 200 THEN AcceptCheck(requests, r)
                   ELSE IF CurrentRequests(requests, h) >= hospitals[h].emergency_capacity
                        THEN 400
                   ELSE 200
       IN IF code # 200
          THEN Answer(rec.op, code)
          ELSE /\ tx' = [tx EXCEPT ![t] = rec]
               /\ UNCHANGED last
    /\ UNCHANGED <<schema, hospitals, reply, requests, drivers, assignments, acceptOk, assignOk>>

AcceptStart(t, r, h) ==
    /\ FreeTx(t)
    /\ LET rec == Call("accept", r, h, 0, 0, "none")
           code == AcceptCheck(requests, r)
       IN IF code # 200
          THEN Answer(rec.op, code)
          ELSE /\ tx' = [tx EXCEPT ![t] = rec]
               /\ UNCHANGED last
    /\ UNCHANGED <<schema, hospitals, reply, requests, drivers, assignments, acceptOk, assignOk>>

AcceptCommit(t) ==
    /\ tx[t].op = "accept"
    /\ tx[t].pc = "write"
    /\ requests' = AcceptUpdate(requests, tx[t].req, tx[t].hosp)
    /\ acceptOk' = [acceptOk EXCEPT ![tx[t].req] = @ + 1]
    /\ Return(t, 200)
    /\ UNCHANGED <<schema, hospitals, reply, drivers, assignments, assignOk>>

\* ------------------------------------------------ HospitalService.assignDriverToEmergency
\* SELECT status FROM emergency_requests WHERE id = $1 AND hospital_id = $2
AssignRequestCheck(reqs, r, h) ==
    IF r > Len(reqs) \/ reqs[r].hospital_id # h THEN 404
    ELSE IF reqs[r].status # "accepted" THEN 400
    ELSE 200

\* the driver lookup without the is_available test
AssignDriverCheckApprovedOnly(drvs, d) ==
    IF ~drvs[d].is_approved THEN 404 ELSE 200

\* SELECT .. FROM drivers d WHERE d.id = $1 AND d.is_approved AND d.is_active
AssignDriverCheck(drvs, d) ==
    IF ~drvs[d].is_approved THEN 404
    ELSE IF ~drvs[d].is_available THEN 400
    ELSE 200

\* UPDATE emergency_requests SET status = 'assigned' WHERE id = $1
AssignUpdateRequest(reqs, r) ==
    [reqs EXCEPT ![r].status = "assigned"]

\* INSERT INTO emergency_assignments (emergency_id, driver_id, assigned_at, status)
\* VALUES ($1, $2, NOW(), 'assigned').  A timestamp column is modelled by
\* whether it holds a value (TRUE) or is NULL (FALSE).
AssignInsert(asgs, r, d) ==
    Append(asgs, [emergency_id |-> r, driver_id |-> d, status |-> "assigned",
                  assigned_at |-> TRUE, en_route_at |-> FALSE,
                  arrived_at |-> FALSE, completed_at |-> FALSE])

\* UPDATE drivers SET is_available = false WHERE id = $1
AssignUpdateDriver(drvs, d) ==
    [drvs EXCEPT ![d].is_available = FALSE]

\* assignment rows that exist or that a running assignDriverToEmergency may insert
AsgReserved ==
    Len(assignments) + Cardinality({u \in Tx : tx[u].op = "assign"})

AssignStart(t, r, h, d) ==
    /\ FreeTx(t)
    /\ AsgReserved < MaxAsg
    /\ LET rec == [Call("assign", r, h, d, 0, "none") EXCEPT !.pc = "driver"]
           code == AssignRequestCheck(requests, r, h)
       IN IF code # 200
          THEN Answer(rec.op, code)
          ELSE /\ tx' = [tx EXCEPT ![t] = rec]
               /\ UNCHANGED last
    /\ UNCHANGED <<schema, hospitals, reply, requests, drivers, assignments, acceptOk, assignOk>>

AssignReadDriver(t) ==
    /\ tx[t].op = "assign"
    /\ tx[t].pc = "driver"
    /\ LET code == AssignDriverCheck(drivers, tx[t].drv)
       IN IF code # 200
          THEN Return(t, code)
          ELSE /\ tx' = [tx EXCEPT ![t].pc = "write"]
               /\ UNCHANGED last
    /\ UNCHANGED <<schema, hospitals, reply, requests, drivers, assignments, acceptOk, assignOk>>

AssignCommit(t) ==
    /\ tx[t].op = "assign"
    /\ tx[t].pc = "write"
    /\ requests' = AssignUpdateRequest(requests, tx[t].req)
    /\ assignments' = AssignInsert(assignments, tx[t].req, tx[t].drv)
    /\ drivers' = AssignUpdateDriver(drivers, tx[t].drv)
    /\ assignOk' = [assignOk EXCEPT ![tx[t].req] = @ + 1]
    /\ Return(t, 200)
    /\ UNCHANGED <<schema, hospitals, reply, acceptOk>>

\* the three writes and COMMIT: the statements at which the store can fail
\* once the first write has run
AssignFailPoints == {"insert", "update_driver", "commit"}

\* the rows the transaction has written and not committed are kept
NoRollback(committed, written) == written

\* catch: ROLLBACK.  The rows are the committed ones again, whatever the
\* transaction had written.
Rollback(committed, written) == committed

\* The store fails at statement k (connection lost, statement rejected): the
\* error is not an ApiError, so the catch block rolls back and the call
\* answers 500.
AssignAbort(t) ==
    /\ tx[t].op = "assign"
    /\ tx[t].pc = "write"
    /\ \E k \in AssignFailPoints :
         LET r == tx[t].req
             d == tx[t].drv
             reqs1 == AssignUpdateRequest(requests, r)
             asgs1 == IF k = "insert" THEN assignments
                      ELSE AssignInsert(assignments, r, d)
             drvs1 == IF k = "commit" THEN AssignUpdateDriver(drivers, d)
                      ELSE drivers
         IN /\ requests' = Rollback(requests, reqs1)
            /\ assignments' = Rollback(assignments, asgs1)
            /\ drivers' = Rollback(drivers, drvs1)
    /\ Return(t, 500)
    /\ UNCHANGED <<schema, hospitals, reply, acceptOk, assignOk>>

\* ------------------------------------------------ HospitalService.approveDriver
\* Drivers are interchangeable, so approvals are taken in registration order.
Approved == {d \in Drivers : drivers[d].is_approved}

approveDriver(d) ==
    /\ ~drivers[d].is_approved
    /\ Cardinality(Approved) < MaxApproved
    /\ d = Cardinality(Approved) + 1
    /\ drivers' = [drivers EXCEPT ![d].is_approved = TRUE]
    /\ UNCHANGED <<schema, hospitals, reply, requests, assignments, tx, acceptOk, assignOk, last>>


\* ------------------------------------------------ DriverService.updateAssignmentStatus
\* the map with a step that skips EnRoute
validStatusMapSkipping ==
    [assigned |-> {"en_route", "arrived"}, en_route |-> {"arrived"},
     arrived |-> {"completed"}]

validStatusMap ==
    [assigned |-> {"en_route"}, en_route |-> {"arrived"}, arrived |-> {"completed"}]

\* validStatusMap[assignment.status]?.includes(status)
ValidTransition(from, to) ==
    /\ from \in DOMAIN validStatusMap
    /\ to \in validStatusMap[from]

\* the lookup by id alone, without AND driver_id = $2
AdvanceCheckAnyDriver(asgs, a, d, s) ==
    IF a > Len(asgs) THEN 404
    ELSE IF ~ValidTransition(asgs[a].status, s) THEN 400
    ELSE 200

\* SELECT id, status, emergency_id FROM emergency_assignments
\* WHERE id = $1 AND driver_id = $2, and the transition check on the row
AdvanceCheck(asgs, a, d, s) ==
    IF a > Len(asgs) \/ asgs[a].driver_id # d THEN 404
    ELSE IF ~ValidTransition(asgs[a].status, s) THEN 400
    ELSE 200

\* the timestamp column the UPDATE stamps for the new status
StampColumn(s) ==
    IF s = "en_route" THEN "en_route_at"
    ELSE IF s = "arrived" THEN "arrived_at"
    ELSE "completed_at"

\* UPDATE emergency_assignments SET status = $1, <stamp> = NOW(), updated_at = NOW()
\* WHERE id = $2
AdvanceUpdateAssignment(asgs, a, s) ==
    [asgs EXCEPT ![a].status = s, ![a][StampColumn(s)] = TRUE]

\* UPDATE drivers SET is_available = true WHERE id = $1  (only on 'completed')
AdvanceUpdateDriver(drvs, d, s) ==
    IF s = "completed" THEN [drvs EXCEPT ![d].is_available = TRUE] ELSE drvs

\* the completion without its cascade to the request
AdvanceUpdateRequestNone(reqs, r, s) == reqs

\* a cascade that also marks the request in progress once the driver is under way
AdvanceUpdateRequestInProgress(reqs, r, s) ==
    IF s = "completed" THEN [reqs EXCEPT ![r].status = "completed"]
    ELSE [reqs EXCEPT ![r].status = "in_progress"]

\* UPDATE emergency_requests SET status = 'completed' WHERE id = $1  (only on 'completed')
AdvanceUpdateRequest(reqs, r, s) ==
    IF s = "completed" THEN [reqs EXCEPT ![r].status = "completed"] ELSE reqs

AdvanceStart(t, a, d, s) ==
    /\ FreeTx(t)
    /\ LET rec == Call("advance", 0, 0, d, a, s)
           code == AdvanceCheck(assignments, a, d, s)
       IN IF code # 200
          THEN Answer(rec.op, code)
          ELSE /\ tx' = [tx EXCEPT ![t] = rec]
               /\ UNCHANGED last
    /\ UNCHANGED <<schema, hospitals, reply, requests, drivers, assignments, acceptOk, assignOk>>

AdvanceCommit(t) ==
    /\ tx[t].op = "advance"
    /\ tx[t].pc = "write"
    /\ LET a == tx[t].asg
           s == tx[t].arg
       IN IF StoreAccepts(schema, {"status", StampColumn(s), "updated_at"}, {s})
          THEN /\ drivers' = AdvanceUpdateDriver(drivers, tx[t].drv, s)
               /\ requests' = AdvanceUpdateRequest(requests, assignments[a].emergency_id, s)
               /\ assignments' = AdvanceUpdateAssignment(assignments, a, s)
               /\ Return(t, 200)
          ELSE /\ Return(t, 500)
               /\ UNCHANGED <<requests, drivers, assignments>>
    /\ UNCHANGED <<schema, hospitals, reply, acceptOk, assignOk>>

\* ------------------------------------------------ DriverService.updateAvailabilityStatus
\* SELECT id FROM emergency_assignments
\* WHERE driver_id = $1 AND status IN ('assigned', 'en_route', 'arrived') LIMIT 1
HasActiveAssignment(asgs, d) ==
    \E a \in 1..Len(asgs) : asgs[a].driver_id = d /\ asgs[a].status \in ActiveStatuses

AvailabilityCheck(sch, asgs, d, avail) ==
    IF avail THEN 200
    ELSE IF ~StoreAccepts(sch, {"id", "driver_id", "status"}, ActiveStatuses) THEN 500
    ELSE IF HasActiveAssignment(asgs, d) THEN 400
    ELSE 200

\* UPDATE drivers SET is_available = $1 WHERE id = $2
AvailabilityUpdate(drvs, d, avail) ==
    [drvs EXCEPT ![d].is_available = avail]

\* isAvailable = true: no row is read before the UPDATE, so the transaction
\* is its write
AvailabilityOn(t, d) ==
    /\ FreeTx(t)
    /\ drivers' = AvailabilityUpdate(drivers, d, TRUE)
    /\ Answer("avail", AvailabilityCheck(schema, assignments, d, TRUE))
    /\ UNCHANGED <<schema, hospitals, reply, requests, assignments, acceptOk, assignOk>>

\* isAvailable = false: the SELECT of the active assignments, then the UPDATE
AvailabilityStart(t, d) ==
    /\ FreeTx(t)
    /\ LET rec == Call("avail", 0, 0, d, 0, "false")
           code == AvailabilityCheck(schema, assignments, d, FALSE)
       IN IF code # 200
          THEN Answer(rec.op, code)
          ELSE /\ tx' = [tx EXCEPT ![t] = rec]
               /\ UNCHANGED last
    /\ UNCHANGED <<schema, hospitals, reply, requests, drivers, assignments, acceptOk, assignOk>>

AvailabilityCommit(t) ==
    /\ tx[t].op = "avail"
    /\ tx[t].pc = "write"
    /\ drivers' = AvailabilityUpdate(drivers, tx[t].drv, FALSE)
    /\ Return(t, 200)
    /\ UNCHANGED <<schema, hospitals, reply, requests, assignments, acceptOk, assignOk>>

AdvanceTargets == {"en_route", "arrived", "completed"}

\* In the dispatch model every request is made by the first requester: no
\* operation of HospitalService or DriverService reads user_id.
Next ==
    \/ createEmergencyRequest(1)
    \/ \E t \in Tx, r \in ReqIds, h \in Hospitals : AcceptStart(t, r, h)
    \/ \E t \in Tx : AcceptCommit(t)
    \/ \E t \in Tx, r \in ReqIds, h \in Hospitals, d \in Drivers : AssignStart(t, r, h, d)
    \/ \E t \in Tx : AssignReadDriver(t)
    \/ \E t \in Tx : AssignCommit(t)
    \/ \E t \in Tx : AssignAbort(t)
    \/ \E d \in Drivers : approveDriver(d)
    \/ \E t \in Tx, a \in AsgIds, d \in Drivers, s \in AdvanceTargets : AdvanceStart(t, a, d, s)
    \/ \E t \in Tx : AdvanceCommit(t)
    \/ \E t \in Tx, d \in Drivers : AvailabilityOn(t, d)
    \/ \E t \in Tx, d \in Drivers : AvailabilityStart(t, d)
    \/ \E t \in Tx : AvailabilityCommit(t)

Spec == Init /\ [][Next]_vars

\* One caller at a time: every call runs to its response on the first pooled
\* connection before the next call starts.  What a single call answers and
\* writes for the rows it reads is checked over these behaviours.
SerialNext ==
    \/ createEmergencyRequest(1)
    \/ \E r \in ReqIds, h \in Hospitals : AcceptStart(1, r, h)
    \/ AcceptCommit(1)
    \/ \E r \in ReqIds, h \in Hospitals, d \in Drivers : AssignStart(1, r, h, d)
    \/ AssignReadDriver(1)
    \/ AssignCommit(1)
    \/ AssignAbort(1)
    \/ \E d \in Drivers : approveDriver(d)
    \/ \E a \in AsgIds, d \in Drivers, s \in AdvanceTargets : AdvanceStart(1, a, d, s)
    \/ AdvanceCommit(1)
    \/ \E d \in Drivers : AvailabilityOn(1, d)
    \/ \E d \in Drivers : AvailabilityStart(1, d)
    \/ AvailabilityCommit(1)

SerialSpec == Init /\ [][SerialNext]_vars

\* findNearbyHospitals over every table of hospitals, with the requests the
\* first hospital can have accepted
NearbyInit ==
    /\ schema \in Schemas
    /\ hospitals \in [Hospitals -> HospitalRows]
    /\ reply = NoReply
    /\ requests \in {<< >>, AcceptUpdate(InsertRequest(<< >>, 1), 1, 1)}
    /\ drivers = [d \in Drivers |-> [is_available |-> TRUE, is_approved |-> FALSE]]
    /\ assignments = << >>
    /\ tx = [t \in Tx |-> Idle]
    /\ acceptOk = [r \in ReqIds |-> 0]
    /\ assignOk = [r \in ReqIds |-> 0]
    /\ last = NoCall

NearbyNext ==
    \E order \in RowOrders, latitude \in Latitudes, maxDistance \in Distances,
       limit \in Limits :
        findNearbyHospitals(order, latitude, maxDistance, limit)

NearbySpec == NearbyInit /\ [][NearbyNext]_vars

\* the dispatch operations one call at a time, and in between the hospitals
\* looked up with the widest radius and the largest limit, which leave every
\* registered hospital in the result
LoadNext ==
    \/ SerialNext
    \/ \E order \in RowOrders, latitude \in Latitudes :
           findNearbyHospitals(order, latitude, MaxDistance, MaxLimit)

LoadSpec == Init /\ [][LoadNext]_vars

\* requests with and without a user through every list of roles
AuthNext ==
    \E user \in RequestUsers, roles \in RoleLists : authorize(user, roles)

AuthSpec == Init /\ [][AuthNext]_vars

\* the requesters make requests and read their histories
HistoryNext ==
    \/ \E u \in Requesters : createEmergencyRequest(u)
    \/ \E u \in Requesters, page \in Pages, limit \in PageSizes :
           getUserEmergencyHistory(u, page, limit)

HistorySpec == Init /\ [][HistoryNext]_vars

\* requests made and accepted one call at a time, and the hospitals looked up
\* in between
CapacityNext ==
    \/ createEmergencyRequest(1)
    \/ \E r \in ReqIds, h \in Hospitals : AcceptStart(1, r, h)
    \/ AcceptCommit(1)
    \/ \E order \in RowOrders, latitude \in Latitudes, maxDistance \in Distances,
          limit \in Limits :
           findNearbyHospitals(order, latitude, maxDistance, limit)

CapacitySpec == Init /\ [][CapacityNext]_vars

\* ================================================================ claims
Existing == 1..Len(requests)

\* no transaction is running: every started operation has completed
Quiescent == \A t \in Tx : tx[t].op = "idle"

ActiveAssignments(d) ==
    {a \in 1..Len(assignments) :
        assignments[a].driver_id = d /\ assignments[a].status \in ActiveStatuses}

\* C1: of the acceptRequest calls racing for one Pending request exactly one
\* returns success: no request is ever accepted successfully twice.
C1_OneAcceptSucceeds ==
    \A r \in ReqIds : acceptOk[r] <= 1

\* C2: of the assignDriver calls racing for one Accepted request and one
\* available driver exactly one succeeds: a request that was accepted once
\* never has two successful assignDriver calls.
C2_OneAssignSucceeds ==
    \A r \in ReqIds : acceptOk[r] <= 1 => assignOk[r] <= 1

\* C3: no driver has more than one assignment in a non-terminal status.
C3_NoDoubleAssignment ==
    \A d \in Drivers : Cardinality(ActiveAssignments(d)) <= 1

\* C4: after any completed sequence of operations, an unavailable driver has
\* exactly one non-terminal assignment and a driver without a non-terminal
\* assignment is available.
C4_AvailabilityMatchesAssignments ==
    Quiescent =>
        \A d \in Drivers :
            /\ ~drivers[d].is_available => Cardinality(ActiveAssignments(d)) = 1
            /\ ActiveAssignments(d) = {} => drivers[d].is_available

\* C5: is_available turns true only while the driver has no non-terminal
\* assignment, or in the step in which an assignment of the driver reaches
\* 'completed'.
C5_AvailableOnlyWhenFree ==
    [][\A d \in Drivers :
          (~drivers[d].is_available /\ drivers'[d].is_available) =>
              \/ ActiveAssignments(d) = {}
              \/ \E a \in ActiveAssignments(d) :
                    assignments'[a].status = "completed"]_vars

\* the assignment chain of the data model, in order
Chain == <<"assigned", "en_route", "arrived", "completed">>

ChainIndex(s) == CHOOSE i \in 1..Len(Chain) : Chain[i] = s

Rank(s) ==
    IF s = "pending" THEN 0
    ELSE IF s = "accepted" THEN 1
    ELSE IF s = "assigned" THEN 2
    ELSE 3

\* C7: every change of a request's status moves it strictly forward in the
\* order Pending < Accepted < Assigned < {InProgress, Completed}.
C7_RequestNeverRegresses ==
    [][\A r \in Existing :
          requests'[r].status # requests[r].status =>
              Rank(requests'[r].status) > Rank(requests[r].status)]_vars

C9_HospitalNullIffPending ==
    \A r \in Existing :
        (requests[r].hospital_id = 0) <=> (requests[r].status = "pending")

\* an acceptRequest has committed on one request while another is still Pending
C9_Witness ==
    \E r, q \in Existing :
        /\ acceptOk[r] >= 1
        /\ requests[r].hospital_id # 0
        /\ requests[q].status = "pending"

\* C10: first acceptor wins: once a hospital is bound to a request, no step
\* binds another hospital to it.
C10_FirstAcceptorWins ==
    [][\A r \in Existing :
          requests[r].hospital_id # 0 =>
              requests'[r].hospital_id = requests[r].hospital_id]_vars

\* connection t ends an assignDriverToEmergency call in this step
AssignEnds(t) ==
    tx[t].op = "assign" /\ tx'[t].op = "idle"

\* the three writes of assignDriver(r, d), all applied in this step
AssignApplied(r, d) ==
    /\ Len(assignments') = Len(assignments) + 1
    /\ assignments'[Len(assignments')].emergency_id = r
    /\ assignments'[Len(assignments')].driver_id = d
    /\ assignments'[Len(assignments')].status = "assigned"
    /\ requests'[r].status = "assigned"
    /\ ~drivers'[d].is_available

\* C11: assignDriver is atomic.  The step in which a call ends either
\* answers success and applies all three writes (assignment row in status
\* Assigned, request Assigned, driver unavailable) or answers an error and
\* leaves every request, assignment and driver row as committed before; and
\* an assignment row appears or a request becomes Assigned in no other step.
C11_AssignAtomic ==
    [][/\ \A t \in Tx :
            AssignEnds(t) =>
                \/ last' = Ok /\ AssignApplied(tx[t].req, tx[t].drv)
                \/ last' # Ok /\ UNCHANGED <<requests, assignments, drivers>>
       /\ (\/ Len(assignments') # Len(assignments)
           \/ \E r \in Existing : /\ requests[r].status # "assigned"
                                   /\ requests'[r].status = "assigned")
            => \E t \in Tx : AssignEnds(t) /\ last' = Ok]_vars

\* one assignDriver call has committed its three writes and a later one was
\* rolled back after a store failure
C11_Witness ==
    /\ last = [op |-> "assign", at |-> "write", code |-> 500]
    /\ \E a \in 1..Len(assignments) :
          /\ assignments[a].status = "assigned"
          /\ requests[assignments[a].emergency_id].status = "assigned"
          /\ ~drivers[assignments[a].driver_id].is_available
          /\ assignOk[assignments[a].emergency_id] >= 1

\* an error response of operation op, raised at statement at
Failure(op, at, code) == [op |-> op, at |-> at, code |-> code]

RowsUnchanged == UNCHANGED <<requests, assignments, drivers>>

\* connection t is at the driver lookup of assignDriverToEmergency and takes
\* its step
AssignDriverStep(t) ==
    tx[t].op = "assign" /\ tx[t].pc = "driver" /\ tx'[t] # tx[t]

\* assignDriver answers NotFound (404) for a request that does not exist or
\* is bound to another hospital, and Conflict (400) for a bound request that
\* is not Accepted; no row changes
AssignRequestFailures ==
    \A t \in Tx, r \in ReqIds, h \in Hospitals :
        /\ (r \notin Existing \/ requests[r].hospital_id # h)
              => \A d \in Drivers :
                    AssignStart(t, r, h, d)
                      => last' = Failure("assign", "start", 404) /\ RowsUnchanged
        /\ (r \in Existing /\ requests[r].hospital_id = h
                            /\ requests[r].status # "accepted")
              => \A d \in Drivers :
                    AssignStart(t, r, h, d)
                      => last' = Failure("assign", "start", 400) /\ RowsUnchanged

\* C12 as claimed: NotFound for a missing or foreign request, Conflict for a
\* request that is not Accepted, Conflict for a driver that is unavailable or
\* unapproved; no request, assignment or driver row changes.
C12_AssignFailuresAsClaimed ==
    [][/\ AssignRequestFailures
       /\ \A t \in Tx :
            (/\ AssignDriverStep(t)
             /\ \/ ~drivers[tx[t].drv].is_approved
                \/ ~drivers[tx[t].drv].is_available)
              => last' = Failure("assign", "driver", 400) /\ RowsUnchanged]_vars

\* C12 amended: as claimed, except that an unapproved driver is answered
\* NotFound (404); Conflict (400) is the answer for an approved driver that
\* is unavailable.
C12_AssignFailures ==
    [][/\ AssignRequestFailures
       /\ \A t \in Tx :
            AssignDriverStep(t) =>
                /\ ~drivers[tx[t].drv].is_approved
                      => last' = Failure("assign", "driver", 404) /\ RowsUnchanged
                /\ (drivers[tx[t].drv].is_approved /\ ~drivers[tx[t].drv].is_available)
                      => last' = Failure("assign", "driver", 400) /\ RowsUnchanged]_vars

\* assignDriver has just answered NotFound at its driver lookup: the request
\* it named is Accepted and no driver is approved yet
C12_Witness ==
    /\ last = Failure("assign", "driver", 404)
    /\ Approved = {}
    /\ \E r \in Existing : requests[r].status = "accepted"

\* C13: acceptRequest(r, h) answers NotFound (404) when r does not exist and
\* Conflict (400) when r is not Pending, already Accepted included, and then
\* changes no row; for a Pending request it goes on to its write, which
\* answers success with r Accepted and bound to h.
C13_AcceptContract ==
    [][/\ \A t \in Tx, r \in ReqIds, h \in Hospitals :
            AcceptStart(t, r, h) =>
                /\ r \notin Existing
                      => last' = Failure("accept", "start", 404) /\ RowsUnchanged
                /\ (r \in Existing /\ requests[r].status # "pending")
                      => last' = Failure("accept", "start", 400) /\ RowsUnchanged
                /\ (r \in Existing /\ requests[r].status = "pending")
                      => /\ tx'[t].op = "accept"
                         /\ tx'[t].req = r
                         /\ tx'[t].hosp = h
       /\ \A t \in Tx :
            (tx[t].op = "accept" /\ tx'[t].op = "idle") =>
                /\ last' = Ok
                /\ requests'[tx[t].req].status = "accepted"
                /\ requests'[tx[t].req].hospital_id = tx[t].hosp]_vars

\* a request was accepted, and a further acceptRequest was answered Conflict
C13_Witness ==
    /\ last = Failure("accept", "start", 400)
    /\ \E r \in Existing :
          /\ acceptOk[r] = 1
          /\ requests[r].status = "accepted"
          /\ requests[r].hospital_id # 0
    /\ \A r \in Existing : requests[r].status \in {"pending", "accepted"}

\* connection t ends an updateAssignmentStatus call in this step
AdvanceEnds(t) ==
    tx[t].op = "advance" /\ tx'[t].op = "idle"

\* target is the one step after status cur in the chain
OneStepForward(cur, target) ==
    ChainIndex(target) = ChainIndex(cur) + 1

\* C14: advanceAssignment(a, d, target) on an assignment of d succeeds only
\* when target is the one next step after the current status; a skipped
\* step, the current status again, a step back or any step out of Completed
\* is answered Conflict (400) and changes no row.
C14_AdvanceContract ==
    [][/\ \A t \in Tx, a \in AsgIds, d \in Drivers, s \in AdvanceTargets :
            (/\ AdvanceStart(t, a, d, s)
             /\ a <= Len(assignments)
             /\ assignments[a].driver_id = d)
              => IF OneStepForward(assignments[a].status, s)
                 THEN tx'[t].op = "advance" /\ tx'[t].asg = a /\ tx'[t].arg = s
                 ELSE last' = Failure("advance", "start", 400) /\ RowsUnchanged
       /\ \A t \in Tx :
            (AdvanceEnds(t) /\ last' = Ok) =>
                /\ OneStepForward(assignments[tx[t].asg].status, tx[t].arg)
                /\ assignments'[tx[t].asg].status = tx[t].arg]_vars

\* the only assignment is Completed and its driver's further
\* advanceAssignment was answered Conflict
C14_Witness ==
    /\ last = Failure("advance", "start", 400)
    /\ Len(assignments) = 1
    /\ assignments[1].status = "completed"

C16_OwnAssignmentOnly ==
    [][\A t \in Tx, a \in AsgIds, d \in Drivers, s \in AdvanceTargets :
          (/\ AdvanceStart(t, a, d, s)
           /\ (a > Len(assignments) \/ assignments[a].driver_id # d))
            => last' = Failure("advance", "start", 404) /\ RowsUnchanged]_vars

\* every assignment id exists, all belong to one driver, and an
\* advanceAssignment was answered NotFound: the caller was another driver
C16_Witness ==
    /\ last = Failure("advance", "start", 404)
    /\ Len(assignments) = MaxAsg
    /\ \E d \in Drivers : \A a \in AsgIds : assignments[a].driver_id = d

\* C17: setAvailability(d, false) is answered Conflict (400) and changes no
\* row when d has an assignment that is Assigned, EnRoute or Arrived; when d
\* has none, the call goes on to its write, which answers success with
\* is_available false.
C17_DisableAvailability ==
    [][/\ \A t \in Tx, d \in Drivers :
            AvailabilityStart(t, d) =>
                IF ActiveAssignments(d) # {}
                THEN last' = Failure("avail", "start", 400) /\ RowsUnchanged
                ELSE tx'[t].op = "avail" /\ tx'[t].drv = d
       /\ \A t \in Tx :
            (tx[t].op = "avail" /\ tx'[t].op = "idle") =>
                /\ last' = Ok
                /\ ~drivers'[tx[t].drv].is_available]_vars

\* driver d is unavailable without holding a non-terminal assignment: the
\* last write of is_available was a committed setAvailability(d, false)
OptedOut(d) ==
    ~drivers[d].is_available /\ ActiveAssignments(d) = {}

Stamps == <<"assigned_at", "en_route_at", "arrived_at", "completed_at">>

StampIndex(c) == CHOOSE i \in 1..Len(Stamps) : Stamps[i] = c

ActiveAssignmentsOf(r) ==
    {a \in 1..Len(assignments) :
        assignments[a].emergency_id = r /\ assignments[a].status \in ActiveStatuses}

\* C20: a request never has more than one assignment in a non-terminal
\* status.
C20_OneActiveAssignmentPerRequest ==
    \A r \in Existing : Cardinality(ActiveAssignmentsOf(r)) <= 1

\* C21: a step that adds a request adds exactly one, Pending and without a
\* hospital, answers success whatever the outcome of the hospital lookup
\* that follows the insert, and leaves the other requests as they were.
C21_CreatePending ==
    [][Len(requests') # Len(requests) =>
          /\ Len(requests') = Len(requests) + 1
          /\ requests'[Len(requests')].status = "pending"
          /\ requests'[Len(requests')].hospital_id = 0
          /\ last' = Ok
          /\ \A r \in Existing : requests'[r] = requests[r]]_vars

\* the newest request has just been created while an earlier one is already
\* bound to a hospital
C21_Witness ==
    /\ last = Ok
    /\ Quiescent
    /\ Len(requests) = 2
    /\ requests[1].hospital_id # 0
    /\ requests[2].status = "pending"
    /\ requests[2].hospital_id = 0

\* the hospitals findNearbyHospitals may return for the recorded call
Eligible ==
    {h \in Hospitals :
        /\ hospitals[h].is_active
        /\ hospitals[h].located
        /\ calculateDistance(reply.latitude, hospitals[h].latitude) <= reply.maxDistance}

Returned == {reply.rows[i].id : i \in 1..Len(reply.rows)}

\* how many elements "the first limit elements" are: none for a limit below 0
FirstCount == IF reply.limit < 0 THEN 0 ELSE reply.limit

\* C22: findNearbyHospitals returns exactly the first `limit` elements of the
\* active, located hospitals within maxDistance sorted by non-decreasing
\* distance: the result holds only such hospitals, each once and with its
\* distance, it is sorted, no hospital left out is nearer than one returned,
\* its length is at most limit (no element for a limit below 0) and it is cut
\* short only by the limit; the call changes no row.
C22_NearbyFirstLimit ==
    /\ [](reply.op = "nearby" =>
            /\ \A i \in 1..Len(reply.rows) :
                  /\ reply.rows[i].id \in Eligible
                  /\ reply.rows[i].distance =
                        calculateDistance(reply.latitude, hospitals[reply.rows[i].id].latitude)
            /\ \A i, j \in 1..Len(reply.rows) :
                  i < j => /\ reply.rows[i].id # reply.rows[j].id
                           /\ reply.rows[i].distance <= reply.rows[j].distance
            /\ \A h \in Eligible \ Returned : \A i \in 1..Len(reply.rows) :
                  reply.rows[i].distance
                      <= calculateDistance(reply.latitude, hospitals[h].latitude)
            /\ Len(reply.rows) <= FirstCount
            /\ Len(reply.rows) = FirstCount \/ Returned = Eligible)
    /\ [][reply' # reply =>
            UNCHANGED <<schema, hospitals, requests, drivers, assignments, tx,
                        acceptOk, assignOk, last>>]_vars

\* the ids of the rows of a result, in their order
Ids(rows) == [i \in 1..Len(rows) |-> rows[i].id]

\* C23: capacity is advisory.  acceptRequest on a Pending request goes on to
\* its write and succeeds, binding the request to the hospital, whatever the
\* number of requests the hospital already holds; and findNearbyHospitals
\* returns the hospitals it returns when no request is bound to any hospital.
C23_CapacityAdvisory ==
    [][/\ \A t \in Tx, r \in ReqIds, h \in Hospitals :
            (AcceptStart(t, r, h) /\ r \in Existing /\ requests[r].status = "pending")
                => /\ tx'[t].op = "accept"
                   /\ tx'[t].req = r
                   /\ tx'[t].hosp = h
       /\ \A t \in Tx :
            (tx[t].op = "accept" /\ tx'[t].op = "idle")
                => /\ last' = Ok
                   /\ requests'[tx[t].req].status = "accepted"
                   /\ requests'[tx[t].req].hospital_id = tx[t].hosp
       /\ reply' # reply
            => \E order \in RowOrders :
                  Ids(reply'.rows) =
                      Ids(NearbyHospitals(hospitals, << >>, order, reply'.latitude,
                                          reply'.maxDistance, reply'.limit))]_vars

\* a hospital of capacity 1 has accepted two requests, the second with
\* success, and a lookup returned it with a load over its capacity
C23_Witness ==
    /\ last = Ok
    /\ \E h \in Hospitals :
          /\ \A r \in ReqIds :
                r \in Existing /\ requests[r].status = "accepted"
                               /\ requests[r].hospital_id = h
          /\ reply.op = "nearby"
          /\ \E i \in 1..Len(reply.rows) :
                /\ reply.rows[i].id = h
                /\ reply.rows[i].currentRequests > reply.rows[i].maxCapacity

\* the cap on a page of history, 100 in the claim, scaled to the tables of
\* the model: one below the number of requests a requester can have made
HistoryCap == MaxReq - 1

\* the requests of requester u
Own(u) == {r \in Existing : requests[r].user_id = u}

\* C24: a successful getUserEmergencyHistory(u, page, limit) returns only
\* requests of u, newest first and each once; page p starts after the
\* (p - 1) * limit newest requests of u and leaves none out up to the last item
\* returned; it returns limit items unless u has no more; and the number of
\* items is at most the cap whatever limit was asked for.
C24_HistoryPage ==
    [][(reply' # reply /\ reply'.op = "history" /\ reply'.code = 200) =>
        LET rows == reply'.requests
            own == Own(reply'.user_id)
            skipped == (reply'.page - 1) * reply'.limit
        IN /\ \A i \in 1..Len(rows) :
                 /\ rows[i].requestId \in own
                 /\ rows[i].createdAt = requests[rows[i].requestId].created_at
                 /\ Cardinality({r \in own : requests[r].created_at > rows[i].createdAt})
                       = skipped + i - 1
           /\ \A i, j \in 1..Len(rows) : i < j => rows[i].createdAt >= rows[j].createdAt
           /\ \/ Len(rows) = reply'.limit
              \/ Len(rows) = Cardinality(own) - skipped
              \/ Len(rows) = 0 /\ skipped >= Cardinality(own)
           /\ Len(rows) <= HistoryCap]_vars

\* C25: while no call is under way, a Pending or Accepted request can be
\* cancelled: some operation of the services takes it to Cancelled in its
\* next step; a request becomes Cancelled only from Pending or Accepted; and
\* a Cancelled request never changes again.
C25_Cancellable ==
    /\ [](\A r \in ReqIds :
            (Quiescent /\ r \in Existing /\ requests[r].status \in {"pending", "accepted"})
                => ENABLED (SerialNext /\ requests'[r].status = "cancelled"))
    /\ [][\A r \in Existing :
            /\ (requests[r].status # "cancelled" /\ requests'[r].status = "cancelled")
                  => requests[r].status \in {"pending", "accepted"}
            /\ requests[r].status = "cancelled" => requests'[r] = requests[r]]_vars

\* the statuses of a request that is bound to a hospital and not yet over
NonTerminal == {"accepted", "assigned", "in_progress"}

\* the requests bound to hospital h in a non-terminal status
BoundNonTerminal(h) ==
    {r \in Existing : requests[r].hospital_id = h /\ requests[r].status \in NonTerminal}

\* C26: the load findNearbyHospitals reports for a hospital is the number of
\* requests bound to that hospital whose status is Accepted, Assigned or
\* InProgress in the state the call reads.
C26_CurrentLoad ==
    [][(reply' # reply /\ reply'.op = "nearby") =>
          \A i \in 1..Len(reply'.rows) :
              reply'.rows[i].currentRequests
                  = Cardinality(BoundNonTerminal(reply'.rows[i].id))]_vars

\* a hospital has one request completed and one assigned, and a lookup in
\* that state reported it with a load of one
C26_Witness ==
    /\ reply.op = "nearby"
    /\ \E order \in RowOrders :
          reply.rows = NearbyHospitals(hospitals, requests, order, reply.latitude,
                                        reply.maxDistance, reply.limit)
    /\ \E i \in 1..Len(reply.rows) :
          /\ reply.rows[i].currentRequests = 1
          /\ \E r, q \in Existing :
                /\ requests[r].hospital_id = reply.rows[i].id
                /\ requests[r].status = "assigned"
                /\ requests[q].hospital_id = reply.rows[i].id
                /\ requests[q].status = "completed"

\* the roles listed in the recorded authorize call
Listed == {reply.roles[i] : i \in 1..Len(reply.roles)}

\* C27: authorize(...roles) passes the request on without error exactly when
\* a user is attached and the user's role is listed; with no user it yields
\* 401 and with a user whose role is not listed 403, and in both cases the
\* protected handler is not run.
C27_Authorize ==
    reply.op = "authorize" =>
        /\ reply.error = 0 <=> (reply.user # "none" /\ reply.user \in Listed)
        /\ reply.user = "none" => reply.error = 401
        /\ (reply.user # "none" /\ reply.user \notin Listed) => reply.error = 403
        /\ reply.error # 0 => ~reply.handler
        /\ reply.error = 0 => reply.handler

\* a user of role user met authorize(hospital, driver) and was refused 403
C27_Witness ==
    /\ reply.op = "authorize"
    /\ reply.user = "user"
    /\ reply.roles = <<"hospital", "driver">>
    /\ reply.error = 403
    /\ ~reply.handler

\* C28: every assignment status the services write is in the domain the
\* deployed schema declares for emergency_assignments.status: the row that
\* assignDriverToEmergency inserts carries such a status, and an
\* updateAssignmentStatus call that has passed its checks writes a status of
\* the domain, is not rejected by the store and leaves the assignment in the
\* status asked for.
C28_StatusesStorable ==
    [][/\ \A a \in 1..Len(assignments') :
            a > Len(assignments)
                => assignments'[a].status \in AssignmentStatusDomain(schema)
       /\ \A t \in Tx :
            (tx[t].op = "advance" /\ tx[t].pc = "write" /\ tx'[t].op = "idle")
                => /\ tx[t].arg \in AssignmentStatusDomain(schema)
                   /\ last' = Ok
                   /\ assignments'[tx[t].asg].status = tx[t].arg]_vars

====
